---- MODULE Spec2Model ----
(***************************************************************************)
(* Model of static/js/script.js: the click handler of the send button.     *)
(*                                                                         *)
(* The page is a single-threaded event loop.  An activation of the async   *)
(* click handler runs statement by statement while it owns the call stack  *)
(* (running = its number) and gives the stack up at each await.  External  *)
(* events (a click, an edit of an input field, a settled promise) are      *)
(* taken only when the stack is empty.                                     *)
(*                                                                         *)
(* Strings are sequences of tokens; a field value is a sequence of         *)
(* one-character tokens, a message is a sequence holding its fixed text.   *)
(***************************************************************************)
EXTENDS Integers, Sequences, FiniteSets, TLC

\* ---------------------------------------------------------------- bounds
\* number of activations of the click handler in one behaviour
MaxAct == 2

\* the activations, numbered in the order of their clicks
Acts == 1..MaxAct

\* no activation: the call stack is empty, no promise has settled yet
None == 0

\* ------------------------------------------------------ fixed strings
AlertMsg      == <<"please enter number and text!">>
InProgressMsg == <<"sending...">>
SuccessMsg    == <<"sent successfully!">>
FailureMsg    == <<"error while sending.">>
ErrorPrefix   == <<"error: ">>

Endpoint == "/inbound"

\* values the user can leave in the phone field
PhoneValues == { <<>>, <<" ">>, <<" ", "7", " ">>, <<"7", " ", "8">> }

\* values the user can leave in the message field
MessageValues == { <<>>, <<" ", " ">>, <<"h", "i", " ">> }

\* messages of the errors fetch() can reject with
FetchErrors == { <<"Failed to fetch">> }

\* messages of the errors res.json() can reject with
ParseErrors == { <<"Unexpected token <">> }

\* message of the TypeError raised by reading a property of null
NullPropertyError == <<"Cannot read properties of null (reading 'ok')">>

\* JSON values a body can parse to: kind is the JSON type, ok the value of
\* the member "ok" of an object ("undefined" when the object has none)
OkValues == {"undefined", "true", "false", "0", "'x'"}

JsonValues ==
    [kind : {"object"}, ok : OkValues]
      \cup [kind : {"null", "number"}, ok : {"undefined"}]

NoData == [kind |-> "none", ok |-> "undefined"]

\* ------------------------------------------------------------ helpers
IsWhitespace(c) == c = " "

RECURSIVE TrimStart(_)
TrimStart(s) ==
    IF s = <<>> THEN s
    ELSE IF IsWhitespace(Head(s)) THEN TrimStart(Tail(s)) ELSE s

RECURSIVE TrimEnd(_)
TrimEnd(s) ==
    IF s = <<>> THEN s
    ELSE IF IsWhitespace(s[Len(s)]) THEN TrimEnd(SubSeq(s, 1, Len(s) - 1)) ELSE s

TrimNothing(s) == s

\* String.prototype.trim
Trim(s) == TrimEnd(TrimStart(s))

\* !phone : the empty string is the only falsy string
IsEmpty(s) == s = <<>>

RejectsBoth(p, t) == IsEmpty(p) /\ IsEmpty(t)

\* line 9: !phone || !text
Rejects(p, t) == IsEmpty(p) \/ IsEmpty(t)

\* truthiness of a JavaScript value
Truthy(v) == v \notin {"undefined", "false", "null", "0", "''"}

\* data.ok raises a TypeError when data is null
ReadOkThrows(d) == d.kind = "null"

\* data.ok : a member of an object, undefined on any other non-null value
ReadOk(d) == IF d.kind = "object" THEN d.ok ELSE "undefined"

AppendText(old, new) == old \o new

\* element.textContent = new
SetText(old, new) == new

BodySwapped(p, t) == [from |-> t, text |-> p]

\* JSON.stringify({ from: phone, text })
RequestBody(p, t) == [from |-> p, text |-> t]

\* an entry of the record of what an activation did
Event(e, t) == [ev |-> e, text |-> t]

VARIABLES
    phoneInput,     \* phoneInput.value
    messageInput,   \* messageInput.value
    textContent,    \* responseDiv.textContent
    running,        \* the activation that owns the call stack, or None
    nclicks,        \* activations started so far
    pc,             \* pc[a]: position of activation a in the handler
    phone,          \* local const phone
    text,           \* local const text
    data,           \* local const data
    err,            \* the caught error's message
    requests,       \* the requests handed to fetch, in order
    alerts,         \* the alerts shown, in order
    log,            \* log[a]: what activation a did, in order
    textAtStart,    \* textContent when activation a began
    textAtEnd,      \* textContent when activation a returned
    lastResponse,   \* the activation whose fetch promise resolved last
    lastSettled     \* the activation whose last awaited promise settled last

vars == << phoneInput, messageInput, textContent, running, nclicks, pc, phone,
           text, data, err, requests, alerts, log, textAtStart, textAtEnd,
           lastResponse, lastSettled >>

dom    == << phoneInput, messageInput >>
locals == << phone, text, data, err >>
hist   == << textAtStart, textAtEnd >>
order  == << lastResponse, lastSettled >>

Init ==
    /\ phoneInput = <<>>
    /\ messageInput = <<>>
    /\ textContent = <<>>
    /\ running = None
    /\ nclicks = 0
    /\ pc = [a \in Acts |-> "idle"]
    /\ phone = [a \in Acts |-> <<>>]
    /\ text = [a \in Acts |-> <<>>]
    /\ data = [a \in Acts |-> NoData]
    /\ err = [a \in Acts |-> <<>>]
    /\ requests = <<>>
    /\ alerts = <<>>
    /\ log = [a \in Acts |-> <<>>]
    /\ textAtStart = [a \in Acts |-> <<>>]
    /\ textAtEnd = [a \in Acts |-> <<>>]
    /\ lastResponse = None
    /\ lastSettled = None

StackEmptyAlways == TRUE

\* the event loop takes a new task only when no handler is on the stack
StackEmpty == running = None

\* ------------------------------------------------------- user events
SetPhone(v) ==
    /\ StackEmpty
    /\ nclicks < MaxAct
    /\ phoneInput' = v
    /\ UNCHANGED << messageInput, textContent, running, nclicks, pc, locals,
                    requests, alerts, log, hist, order >>

SetMessage(v) ==
    /\ StackEmpty
    /\ nclicks < MaxAct
    /\ messageInput' = v
    /\ UNCHANGED << phoneInput, textContent, running, nclicks, pc, locals,
                    requests, alerts, log, hist, order >>

\* lines 6-8: the click starts an activation, which reads and trims the fields
Click ==
    /\ StackEmpty
    /\ nclicks < MaxAct
    /\ LET a == nclicks + 1 IN
        /\ nclicks' = a
        /\ running' = a
        /\ phone' = [phone EXCEPT ![a] = Trim(phoneInput)]
        /\ text' = [text EXCEPT ![a] = Trim(messageInput)]
        /\ textAtStart' = [textAtStart EXCEPT ![a] = textContent]
        /\ pc' = [pc EXCEPT ![a] = "L9"]
    /\ UNCHANGED << dom, textContent, data, err, requests, alerts, log,
                    textAtEnd, order >>

\* ------------------------------------------------- handler statements
\* what returning from the handler does to the bookkeeping
Return(a) ==
    /\ pc' = [pc EXCEPT ![a] = "done"]
    /\ running' = None
    /\ textAtEnd' = [textAtEnd EXCEPT ![a] = textContent']

\* line 9: if (!phone || !text)
Validate(a) ==
    /\ running = a
    /\ pc[a] = "L9"
    /\ pc' = [pc EXCEPT ![a] =
                IF Rejects(phone[a], text[a]) THEN "L10" ELSE "L14"]
    /\ UNCHANGED << dom, textContent, running, nclicks, locals, requests,
                    alerts, log, hist, order >>

\* lines 10-11: alert(...); return
Alert(a) ==
    /\ running = a
    /\ pc[a] = "L10"
    /\ alerts' = Append(alerts, [act |-> a, text |-> AlertMsg])
    /\ log' = [log EXCEPT ![a] = Append(@, Event("alert", AlertMsg))]
    /\ textContent' = textContent
    /\ Return(a)
    /\ UNCHANGED << dom, nclicks, locals, requests, textAtStart, order >>

\* line 14: responseDiv.textContent = in-progress message
WriteProgress(a) ==
    /\ running = a
    /\ pc[a] = "L14"
    /\ textContent' = SetText(textContent, InProgressMsg)
    /\ log' = [log EXCEPT ![a] = Append(@, Event("write", InProgressMsg))]
    /\ pc' = [pc EXCEPT ![a] = "L17"]
    /\ UNCHANGED << dom, running, nclicks, locals, requests, alerts, hist, order >>

\* lines 17-21: fetch('/inbound', {...}) is called and the handler awaits it
Fetch(a) ==
    /\ running = a
    /\ pc[a] = "L17"
    /\ requests' = Append(requests,
                          [act |-> a, url |-> Endpoint, method |-> "POST",
                           contentType |-> "application/json",
                           body |-> RequestBody(phone[a], text[a])])
    /\ log' = [log EXCEPT ![a] = Append(@, Event("request", <<>>))]
    /\ pc' = [pc EXCEPT ![a] = "await_fetch"]
    /\ running' = None
    /\ UNCHANGED << dom, textContent, nclicks, locals, alerts, hist, order >>

\* ------------------------------------------------- promise settlements
\* the promise of fetch() resolves with a response: the handler resumes
FetchResolve(a) ==
    /\ StackEmpty
    /\ pc[a] = "await_fetch"
    /\ running' = a
    /\ pc' = [pc EXCEPT ![a] = "L23"]
    /\ log' = [log EXCEPT ![a] = Append(@, Event("response", <<>>))]
    /\ lastResponse' = a
    /\ UNCHANGED << dom, textContent, nclicks, locals, requests, alerts, hist,
                    lastSettled >>

\* the promise of fetch() rejects: the handler resumes in the catch clause
FetchReject(a, x) ==
    /\ StackEmpty
    /\ pc[a] = "await_fetch"
    /\ running' = a
    /\ err' = [err EXCEPT ![a] = x]
    /\ pc' = [pc EXCEPT ![a] = "L30"]
    /\ log' = [log EXCEPT ![a] = Append(@, Event("fetch_rejected", x))]
    /\ lastSettled' = a
    /\ UNCHANGED << dom, textContent, nclicks, phone, text, data, requests,
                    alerts, hist, lastResponse >>

\* line 23: res.json() is called and the handler awaits it
CallJson(a) ==
    /\ running = a
    /\ pc[a] = "L23"
    /\ pc' = [pc EXCEPT ![a] = "await_json"]
    /\ running' = None
    /\ UNCHANGED << dom, textContent, nclicks, locals, requests, alerts, log,
                    hist, order >>

\* the promise of res.json() resolves with the parsed body
JsonResolve(a, v) ==
    /\ StackEmpty
    /\ pc[a] = "await_json"
    /\ running' = a
    /\ data' = [data EXCEPT ![a] = v]
    /\ pc' = [pc EXCEPT ![a] = "L24"]
    /\ log' = [log EXCEPT ![a] = Append(@, Event("parsed", <<>>))]
    /\ lastSettled' = a
    /\ UNCHANGED << dom, textContent, nclicks, phone, text, err, requests,
                    alerts, hist, lastResponse >>

\* the promise of res.json() rejects: the body is not JSON
JsonReject(a, x) ==
    /\ StackEmpty
    /\ pc[a] = "await_json"
    /\ running' = a
    /\ err' = [err EXCEPT ![a] = x]
    /\ pc' = [pc EXCEPT ![a] = "L30"]
    /\ log' = [log EXCEPT ![a] = Append(@, Event("json_rejected", x))]
    /\ lastSettled' = a
    /\ UNCHANGED << dom, textContent, nclicks, phone, text, data, requests,
                    alerts, hist, lastResponse >>

BranchRetry(d) == IF Truthy(ReadOk(d)) THEN "L25" ELSE "L17"

BranchInverted(d) == IF Truthy(ReadOk(d)) THEN "L27" ELSE "L25"

\* line 24: the branch if (data.ok) takes
Branch(d) == IF Truthy(ReadOk(d)) THEN "L25" ELSE "L27"

\* line 24: if (data.ok), which throws into the catch clause on null
TestOk(a) ==
    /\ running = a
    /\ pc[a] = "L24"
    /\ IF ReadOkThrows(data[a])
         THEN /\ err' = [err EXCEPT ![a] = NullPropertyError]
              /\ pc' = [pc EXCEPT ![a] = "L30"]
              /\ log' = [log EXCEPT ![a] = Append(@, Event("type_error", NullPropertyError))]
         ELSE /\ pc' = [pc EXCEPT ![a] = Branch(data[a])]
              /\ UNCHANGED << err, log >>
    /\ UNCHANGED << dom, textContent, running, nclicks, phone, text, data,
                    requests, alerts, hist, order >>

\* line 25: responseDiv.textContent = success message; the handler returns
WriteSuccess(a) ==
    /\ running = a
    /\ pc[a] = "L25"
    /\ textContent' = SetText(textContent, SuccessMsg)
    /\ log' = [log EXCEPT ![a] = Append(@, Event("write", SuccessMsg))]
    /\ Return(a)
    /\ UNCHANGED << dom, nclicks, locals, requests, alerts, textAtStart, order >>

\* line 27: responseDiv.textContent = failure message; the handler returns
WriteFailure(a) ==
    /\ running = a
    /\ pc[a] = "L27"
    /\ textContent' = SetText(textContent, FailureMsg)
    /\ log' = [log EXCEPT ![a] = Append(@, Event("write", FailureMsg))]
    /\ Return(a)
    /\ UNCHANGED << dom, nclicks, locals, requests, alerts, textAtStart, order >>

ErrorTextNoMessage(x) == ErrorPrefix

\* line 30: "error: " + err.message
ErrorText(x) == ErrorPrefix \o x

WriteErrorSilent(a) ==
    /\ running = a
    /\ pc[a] = "L30"
    /\ textContent' = textContent
    /\ Return(a)
    /\ UNCHANGED << dom, nclicks, locals, requests, alerts, log, textAtStart, order >>

\* line 30: responseDiv.textContent = error text; the handler returns
WriteError(a) ==
    /\ running = a
    /\ pc[a] = "L30"
    /\ textContent' = SetText(textContent, ErrorText(err[a]))
    /\ log' = [log EXCEPT ![a] = Append(@, Event("write", ErrorText(err[a])))]
    /\ Return(a)
    /\ UNCHANGED << dom, nclicks, locals, requests, alerts, textAtStart, order >>

Next ==
    \/ \E v \in PhoneValues : SetPhone(v)
    \/ \E v \in MessageValues : SetMessage(v)
    \/ Click
    \/ \E a \in Acts : Validate(a)
    \/ \E a \in Acts : Alert(a)
    \/ \E a \in Acts : WriteProgress(a)
    \/ \E a \in Acts : Fetch(a)
    \/ \E a \in Acts : FetchResolve(a)
    \/ \E a \in Acts, x \in FetchErrors : FetchReject(a, x)
    \/ \E a \in Acts : CallJson(a)
    \/ \E a \in Acts, v \in JsonValues : JsonResolve(a, v)
    \/ \E a \in Acts, x \in ParseErrors : JsonReject(a, x)
    \/ \E a \in Acts : TestOk(a)
    \/ \E a \in Acts : WriteSuccess(a)
    \/ \E a \in Acts : WriteFailure(a)
    \/ \E a \in Acts : WriteError(a)

Spec == Init /\ [][Next]_vars

\* ------------------------------------------------- vocabulary of the claims
Started(a) == pc[a] # "idle"
Done(a)    == pc[a] = "done"

\* the activation passed / failed the validation of line 9
Valid(a)   == Started(a) /\ phone[a] # <<>> /\ text[a] # <<>>
Invalid(a) == Started(a) /\ (phone[a] = <<>> \/ text[a] = <<>>)

\* a field value that holds nothing but whitespace
IsBlank(s) == \A i \in 1..Len(s) : s[i] = " "

\* t is s without its leading and trailing whitespace
IsTrimOf(t, s) ==
    /\ \E i \in 0..Len(s) : \E j \in i..Len(s) :
          /\ t = SubSeq(s, i + 1, j)
          /\ IsBlank(SubSeq(s, 1, i))
          /\ IsBlank(SubSeq(s, j + 1, Len(s)))
    /\ t # <<>> => (t[1] # " " /\ t[Len(t)] # " ")

HasErrorPrefix(t) ==
    /\ Len(t) >= Len(ErrorPrefix)
    /\ SubSeq(t, 1, Len(ErrorPrefix)) = ErrorPrefix

IsTerminalText(t) == t = SuccessMsg \/ t = FailureMsg \/ HasErrorPrefix(t)

EventsOf(a, kinds) ==
    LET keep(e) == e.ev \in kinds IN SelectSeq(log[a], keep)

WritesOf(a) == EventsOf(a, {"write"})

TerminalWritesOf(a) ==
    LET keep(e) == e.ev = "write" /\ IsTerminalText(e.text) IN SelectSeq(log[a], keep)

ProgressWritesOf(a) ==
    LET keep(e) == e.ev = "write" /\ e.text = InProgressMsg IN SelectSeq(log[a], keep)

RequestsOf(a) ==
    LET keep(r) == r.act = a IN SelectSeq(requests, keep)

AlertsOf(a) ==
    LET keep(r) == r.act = a IN SelectSeq(alerts, keep)

\* the positions of the handler before fetch() is called
BeforeRequest == {"idle", "L9", "L10", "L14", "L17"}

\* the request of a is issued and its terminal write is still to come
InFlight(a) == pc[a] \in {"await_fetch", "L23", "await_json"}

\* the positions at which the handler is suspended at an await
Suspended == {"await_fetch", "await_json"}

\* the in-progress message is written or about to be, the terminal one is not
Pending(a) == Valid(a) /\ pc[a] \notin {"L9", "done"}

AllReturned == nclicks >= 1 /\ \A a \in Acts : Started(a) => Done(a)

\* the text of the terminal write of a
TerminalTextOf(a) == TerminalWritesOf(a)[1].text

\* ------------------------------------------------------------------ C1
\* C1: an activation whose trimmed phone or trimmed message is empty (a
\* whitespace-only field counts as empty) shows one alert, hands no request
\* to fetch, writes nothing to the status element, and returns with the
\* status text exactly as it was when the activation began.
C1_InvalidActivationAlertsOnly ==
    \A a \in Acts :
        /\ pc[a] = "L9" =>
              /\ (phone[a] = <<>>) <=> IsBlank(phoneInput)
              /\ (text[a] = <<>>) <=> IsBlank(messageInput)
        /\ Invalid(a) =>
              /\ RequestsOf(a) = <<>>
              /\ WritesOf(a) = <<>>
              /\ running = a => textContent = textAtStart[a]
              /\ Done(a) =>
                    /\ AlertsOf(a) = << [act |-> a, text |-> AlertMsg] >>
                    /\ textAtEnd[a] = textAtStart[a]

\* a whitespace-only phone with a real message was rejected while the request
\* of an earlier activation was in flight and the status showed its progress
C1_Witness ==
    /\ Done(2) /\ Invalid(2)
    /\ phoneInput = <<" ">> /\ text[2] # <<>>
    /\ InFlight(1)
    /\ textAtStart[2] = InProgressMsg /\ textContent = InProgressMsg
    /\ Len(alerts) = 1 /\ Len(requests) = 1

\* ------------------------------------------------------------------ C2
\* C2: an activation whose trimmed phone and message are both non-empty
\* hands exactly one request to fetch: a POST to /inbound whose JSON body
\* has the trimmed phone under "from" and the trimmed message under "text",
\* as read when the activation began; requests of earlier activations still
\* in flight change nothing, so the requests issued are as many as the valid
\* activations that reached the fetch.
C2_OneRequestPerValidActivation ==
    /\ \A a \in Acts :
          /\ pc[a] = "L9" =>
                /\ IsTrimOf(phone[a], phoneInput)
                /\ IsTrimOf(text[a], messageInput)
          /\ pc[a] \in BeforeRequest => RequestsOf(a) = <<>>
          /\ (Valid(a) /\ pc[a] \notin BeforeRequest) =>
                /\ Len(RequestsOf(a)) = 1
                /\ RequestsOf(a)[1].url = "/inbound"
                /\ RequestsOf(a)[1].method = "POST"
                /\ RequestsOf(a)[1].contentType = "application/json"
                /\ RequestsOf(a)[1].body.from = phone[a]
                /\ RequestsOf(a)[1].body.text = text[a]
    /\ Len(requests) = Cardinality({a \in Acts : Valid(a) /\ pc[a] \notin BeforeRequest})

\* two valid activations issued their requests with different phones, the
\* second while the first was still awaiting its response
C2_Witness ==
    /\ pc[1] = "await_fetch" /\ pc[2] = "await_fetch"
    /\ Len(requests) = 2
    /\ requests[1].body = [from |-> <<"7">>, text |-> <<"h", "i">>]
    /\ requests[2].body = [from |-> <<"7", " ", "8">>, text |-> <<"h", "i">>]

\* ------------------------------------------------------------------ C3
\* C3: when the body of an activation's response parses to a JSON object,
\* the activation's terminal write is the success message if the object's ok
\* is truthy and the failure message if ok is falsy or absent, never the
\* other way round.
C3_ObjectBodyDecidesMessage ==
    \A a \in Acts :
        (Done(a) /\ data[a].kind = "object") =>
            /\ Len(TerminalWritesOf(a)) = 1
            /\ data[a].ok \in {"true", "'x'"} =>
                  (TerminalTextOf(a) = SuccessMsg /\ textAtEnd[a] = SuccessMsg)
            /\ data[a].ok \in {"false", "0", "undefined"} =>
                  (TerminalTextOf(a) = FailureMsg /\ textAtEnd[a] = FailureMsg)

\* one activation saw {ok: true} and wrote success, another saw an object
\* without ok and wrote failure
C3_Witness ==
    /\ Done(1) /\ data[1] = [kind |-> "object", ok |-> "true"]
    /\ textAtEnd[1] = SuccessMsg
    /\ Done(2) /\ data[2] = [kind |-> "object", ok |-> "undefined"]
    /\ textAtEnd[2] = FailureMsg /\ textContent = FailureMsg

\* ------------------------------------------------------------------ C4
\* C4: when fetch rejects, or res.json() rejects, with an error of message
\* X, the activation's only terminal write is the error prefix followed by
\* X; it writes neither the success nor the failure message.
C4_RejectionWritesPrefixedMessage ==
    \A a \in Acts :
        \A i \in 1..Len(log[a]) :
            (Done(a) /\ log[a][i].ev \in {"fetch_rejected", "json_rejected"}) =>
                /\ TerminalWritesOf(a) = << Event("write", ErrorPrefix \o log[a][i].text) >>
                /\ textAtEnd[a] = ErrorPrefix \o log[a][i].text
                /\ textAtEnd[a] # ErrorPrefix

\* one activation's fetch was rejected and another's body was not JSON
C4_Witness ==
    /\ Done(1) /\ EventsOf(1, {"fetch_rejected"}) # <<>>
    /\ textAtEnd[1] = <<"error: ", "Failed to fetch">>
    /\ Done(2) /\ EventsOf(2, {"json_rejected"}) # <<>>
    /\ textContent = <<"error: ", "Unexpected token <">>

\* ------------------------------------------------------------------ C5
\* C5 as stated: once all overlapping activations have returned, the status
\* text is the message of the activation whose response resolved last, that
\* is, whose fetch promise was the last to resolve.  Stated for runs in
\* which every response arrived and every body was parsed.
C5_TextIsOfLastResponse ==
    ( /\ AllReturned
      /\ lastResponse # None
      /\ \A a \in Acts : Started(a) => EventsOf(a, {"response", "parsed"}) # <<>>
                                       /\ Len(EventsOf(a, {"response", "parsed"})) = 2 )
        => textContent = TerminalTextOf(lastResponse)

\* C5 amended: once every activation has returned, the status text is the
\* terminal message of the activation whose last awaited promise (the body
\* parse of res.json(), or a rejected fetch) settled last, whatever the
\* order in which the activations began or their responses arrived.
C5_TextIsOfLastSettled ==
    (AllReturned /\ lastSettled # None) =>
        /\ Len(TerminalWritesOf(lastSettled)) = 1
        /\ textContent = TerminalTextOf(lastSettled)

\* two overlapping activations: the response of the second arrived last, the
\* body of the first was parsed last, and the text shown is the first's
C5_Witness ==
    /\ AllReturned /\ Valid(1) /\ Valid(2)
    /\ textAtStart[2] = InProgressMsg
    /\ lastResponse = 2 /\ lastSettled = 1
    /\ textAtEnd[1] = SuccessMsg /\ textAtEnd[2] = FailureMsg
    /\ textContent = SuccessMsg

\* ------------------------------------------------------------------ C6
\* C6: a valid activation issues one request and, whatever the outcome,
\* returns right after its single terminal write (success, failure or
\* error-prefixed): before it returns it has made at most one request and no
\* terminal write, and once it has returned its log ends with that one
\* write, with no request or write after it.
C6_OneTerminalWriteThenNothing ==
    \A a \in Acts :
        Valid(a) =>
            /\ Len(RequestsOf(a)) <= 1
            /\ Len(EventsOf(a, {"request"})) <= 1
            /\ Len(ProgressWritesOf(a)) <= 1
            /\ ~Done(a) => TerminalWritesOf(a) = <<>>
            /\ Done(a) =>
                  /\ Len(RequestsOf(a)) = 1
                  /\ Len(TerminalWritesOf(a)) = 1
                  /\ log[a][Len(log[a])] = TerminalWritesOf(a)[1]
                  /\ Len(WritesOf(a)) = 2

\* one activation returned on the catch path after a null body, the other on
\* the failure path, each after one request and one terminal write
C6_Witness ==
    /\ Done(1) /\ Valid(1) /\ data[1].kind = "null"
    /\ HasErrorPrefix(textAtEnd[1])
    /\ Done(2) /\ Valid(2) /\ textAtEnd[2] = FailureMsg
    /\ Len(requests) = 2

\* ------------------------------------------------------------------ C7
\* C7 as stated: the network call is the only suspension point, so from the
\* moment an activation's response is received until it has written its
\* terminal text no other activation takes a step.
C7_NoStepAfterResponse ==
    [][ \A a \in Acts : \A b \in Acts \ {a} :
          (EventsOf(a, {"response"}) # <<>> /\ ~Done(a)) =>
              (pc'[b] = pc[b] /\ log'[b] = log[b]) ]_vars

\* C7 amended: an activation is suspended at two points only, await fetch
\* and await res.json(); at every other position between its start and its
\* return it owns the stack, and no step of another activation (validation,
\* in-progress write, request, resumption or terminal write) and no edit of
\* a field happens; in particular nothing is interleaved between the
\* delivery of the parsed body, or of a rejection, and the terminal write.
C7_InterleavingOnlyAtAwaits ==
    [][ \A a \in Acts :
          (Started(a) /\ ~Done(a) /\ pc[a] \notin Suspended) =>
              /\ running = a
              /\ \A b \in Acts \ {a} : pc'[b] = pc[b] /\ log'[b] = log[b]
              /\ phoneInput' = phoneInput /\ messageInput' = messageInput ]_vars

\* an activation started and wrote its in-progress text while another was
\* suspended at await res.json(), its response already received
C7_Witness ==
    /\ pc[1] = "await_json" /\ EventsOf(1, {"response"}) # <<>>
    /\ pc[2] = "L17" /\ running = 2
    /\ textContent = InProgressMsg

\* ------------------------------------------------------------------ C8
\* C8: in a valid activation the in-progress text is written once, first,
\* then the request is issued, then the terminal text is written; an
\* activation that fails validation never writes the in-progress text, and
\* no activation writes it after its request is issued.  The status shows
\* the in-progress text at the moment the request is issued.
C8_ProgressThenRequestThenTerminal ==
    \A a \in Acts :
        /\ Invalid(a) => ProgressWritesOf(a) = <<>>
        /\ pc[a] \in {"idle", "L9", "L14"} => log[a] = <<>>
        /\ pc[a] = "L17" =>
              (log[a] = << Event("write", InProgressMsg) >> /\ textContent = InProgressMsg)
        /\ (Valid(a) /\ pc[a] \notin BeforeRequest) =>
              /\ Len(log[a]) >= 2
              /\ log[a][1] = Event("write", InProgressMsg)
              /\ log[a][2] = Event("request", <<>>)
              /\ \A i \in 3..Len(log[a]) :
                    /\ log[a][i].ev # "request"
                    /\ log[a][i] # Event("write", InProgressMsg)
              /\ Done(a) => IsTerminalText(log[a][Len(log[a])].text)
                            /\ log[a][Len(log[a])].ev = "write"

\* a valid activation went through all four steps while an invalid one,
\* started during its request, wrote nothing
C8_Witness ==
    /\ Done(1) /\ Valid(1) /\ Len(log[1]) = 5
    /\ log[1][5] = Event("write", SuccessMsg)
    /\ Done(2) /\ Invalid(2) /\ textAtStart[2] = InProgressMsg
    /\ log[2] = << Event("alert", AlertMsg) >>

\* ------------------------------------------------------------------ C9
\* C9 as stated: a body that parsed as JSON always leads to the success or
\* the failure message, never to the error-prefixed one; a parsed body that
\* is not an object carrying ok, such as null, gives the failure message.
C9_ParsedBodyNeverError ==
    \A a \in Acts :
        (Done(a) /\ EventsOf(a, {"parsed"}) # <<>>) =>
            /\ textAtEnd[a] \in {SuccessMsg, FailureMsg}
            /\ (data[a].kind # "object" \/ data[a].ok = "undefined") =>
                  textAtEnd[a] = FailureMsg

\* ----------------------------------------------------------------- C10
\* C10: whenever the status shows the in-progress text, some activation is
\* pending: it passed validation and has not yet made its terminal write.
\* When no activation is pending the status never shows the in-progress text.
C10_ProgressTextImpliesPending ==
    textContent = InProgressMsg => \E a \in Acts : Pending(a)

\* the first activation finished while the second was in flight, then the
\* second finished: the in-progress text of the second was shown in between
C10_Witness ==
    /\ AllReturned /\ Valid(1) /\ Valid(2)
    /\ textAtStart[2] = SuccessMsg
    /\ HasErrorPrefix(textContent)
    /\ ~(\E a \in Acts : Pending(a))

====
